---- MODULE Spec2Model ----
(***************************************************************************)
(* The format-string fixer scripts of src/scripts, as a state machine over *)
(* one source file.  A text is a sequence of one-character strings.  The   *)
(* regular expressions of the scripts are kept as syntax trees and matched *)
(* by a backtracking matcher with the priorities of Python's re module     *)
(* (leftmost match, greedy and lazy repetition, capture groups); re.sub    *)
(* and the replacement callbacks are operators over that matcher.          *)
(***************************************************************************)
EXTENDS Integers, Sequences, FiniteSets

\* Bounds of the input space and of a behaviour.
MaxPieces == 2
MaxArgs == 2
MaxRuns == 2

(***************************************************************************)
(* Characters and Python's str methods                                     *)
(***************************************************************************)
Q == "\""

\* The characters \s and str.strip() take (str patterns, no re.ASCII):
\* space, \t, \n, \r, \f, then U+000B, U+001C to U+001F, U+0085 and U+00A0
\* written as themselves.
Whitespace ==
  {" ", "\t", "\n", "\r", "\f",
   "", "", "", "", "", "", " "}

\* The characters \w takes: [A-Za-z0-9_] and the letters and digits of
\* U+0080 to U+00FF.
WordChars ==
  {"a","b","c","d","e","f","g","h","i","j","k","l","m","n","o","p","q","r","s",
   "t","u","v","w","x","y","z","A","B","C","D","E","F","G","H","I","J","K","L",
   "M","N","O","P","Q","R","S","T","U","V","W","X","Y","Z","0","1","2","3","4",
   "5","6","7","8","9","_",
   "ª","²","³","µ","¹","º","¼","½","¾","À","Á","Â","Ã","Ä","Å","Æ","Ç","È",
   "É","Ê","Ë","Ì","Í","Î","Ï","Ð","Ñ","Ò","Ó","Ô","Õ","Ö","Ø","Ù","Ú","Û",
   "Ü","Ý","Þ","ß","à","á","â","ã","ä","å","æ","ç","è","é","ê","ë","ì","í",
   "î","ï","ð","ñ","ò","ó","ô","õ","ö","ø","ù","ú","û","ü","ý","þ","ÿ"}

S_format == <<"f","o","r","m","a","t","!">>
S_println == <<"p","r","i","n","t","l","n","!">>
S_eprintln == <<"e","p","r","i","n","t","l","n","!">>
S_write == <<"w","r","i","t","e","!">>
S_self == <<"s","e","l","f">>

\* s[i:] of Python, 1-based: the text from position i on.
From(s, i) == SubSeq(s, i, Len(s))

\* s.startswith(p, at i-1): p occurs in s at position i.
OccursAt(s, p, i) ==
  /\ i + Len(p) - 1 <= Len(s)
  /\ \A k \in 1..Len(p) : s[i + k - 1] = p[k]

StartsWith(s, p) == OccursAt(s, p, 1)

EndsWith(s, p) == Len(p) <= Len(s) /\ OccursAt(s, p, Len(s) - Len(p) + 1)

\* c in s
Contains(s, c) == \E i \in 1..Len(s) : s[i] = c

RECURSIVE LStrip(_)
LStrip(s) == IF s # <<>> /\ Head(s) \in Whitespace THEN LStrip(Tail(s)) ELSE s

RECURSIVE RStrip(_)
RStrip(s) ==
  IF s # <<>> /\ s[Len(s)] \in Whitespace THEN RStrip(SubSeq(s, 1, Len(s) - 1)) ELSE s

\* str.strip()
Strip(s) == RStrip(LStrip(s))

Min(S) == CHOOSE x \in S : \A y \in S : x <= y
Max(S) == CHOOSE x \in S : \A y \in S : x >= y

\* str.find(p, i-1) + 1: the position of the first occurrence of p in s at
\* or after i, 0 if none.
Find(s, p, i) ==
  LET at == {k \in i..(Len(s) - Len(p) + 1) : OccursAt(s, p, k)}
  IN IF at = {} THEN 0 ELSE Min(at)

\* str.count(p): non-overlapping occurrences, left to right.
RECURSIVE CountFrom(_, _, _)
CountFrom(s, p, i) ==
  LET k == Find(s, p, i)
  IN IF k = 0 THEN 0 ELSE 1 + CountFrom(s, p, k + Len(p))

Count(s, p) == CountFrom(s, p, 1)

\* str.replace(p, r, 1)
ReplaceFirst(s, p, r) ==
  LET k == Find(s, p, 1)
  IN IF k = 0 THEN s
     ELSE SubSeq(s, 1, k - 1) \o r \o From(s, k + Len(p))

\* str.replace(p, r)
RECURSIVE ReplaceAllFrom(_, _, _, _)
ReplaceAllFrom(s, p, r, i) ==
  LET k == Find(s, p, i)
  IN IF k = 0 THEN From(s, i)
     ELSE SubSeq(s, i, k - 1) \o r \o ReplaceAllFrom(s, p, r, k + Len(p))

ReplaceAll(s, p, r) == ReplaceAllFrom(s, p, r, 1)

\* f.read() of a file opened in text mode with the default newline=None:
\* every "\r\n" and every lone "\r" of the file is read as "\n".
RECURSIVE UniversalNewlines(_)
UniversalNewlines(raw) ==
  IF raw = <<>> THEN <<>>
  ELSE IF OccursAt(raw, <<"\r", "\n">>, 1)
    THEN <<"\n">> \o UniversalNewlines(SubSeq(raw, 3, Len(raw)))
  ELSE IF Head(raw) = "\r" THEN <<"\n">> \o UniversalNewlines(Tail(raw))
  ELSE <<Head(raw)>> \o UniversalNewlines(Tail(raw))

\* ", ".join(xs)
RECURSIVE Join(_)
Join(xs) ==
  IF xs = <<>> THEN <<>>
  ELSE IF Len(xs) = 1 THEN xs[1]
  ELSE xs[1] \o <<",", " ">> \o Join(Tail(xs))

(***************************************************************************)
(* Regular expressions: syntax trees                                       *)
(***************************************************************************)
\* An expression is a sequence of steps; concatenation is \o.
Lit(s) == <<[t |-> "lit", s |-> s]>>
Ch(c) == <<[t |-> "lit", s |-> <<c>>]>>
\* [...] and [^...]
In(set) == [neg |-> FALSE, set |-> set]
Not(set) == [neg |-> TRUE, set |-> set]
\* c*, c*? and c+ of a character class c
Star(c) == <<[t |-> "rep", c |-> c, lo |-> 0, lazy |-> FALSE]>>
LazyStar(c) == <<[t |-> "rep", c |-> c, lo |-> 0, lazy |-> TRUE]>>
Plus(c) == <<[t |-> "rep", c |-> c, lo |-> 1, lazy |-> FALSE]>>
\* (?:e)+ and (?:e)* of an expression e
ZeroOrMore(e) == <<[t |-> "any", e |-> e]>>
OneOrMore(e) == e \o ZeroOrMore(e)
\* (e), the n-th group: its start and its end are saved
Grp(n, e) == <<[t |-> "save", n |-> n, at |-> 1]>> \o e \o <<[t |-> "save", n |-> n, at |-> 2]>>

\* \s* and \w+
WsStar == Star(In(Whitespace))
Word == Plus(In(WordChars))

NoMatch == [ok |-> FALSE]
NoGroups == [n \in 1..5 |-> <<1, 0>>]

InClass(c, ch) == (ch \in c.set) # c.neg

\* How many characters of class c stand in a row from position pos.
RunLen(text, pos, c) ==
  LET out == {j \in pos..Len(text) : ~InClass(c, text[j])}
  IN IF out = {} THEN Len(text) - pos + 1 ELSE Min(out) - pos

\* Whether the first character the expressions todo ask for can stand at
\* pos: a necessary condition of a match there, used to skip the positions
\* and repetition counts that cannot match.
RECURSIVE CanStart(_, _, _)
CanStart(todo, text, pos) ==
  IF todo = <<>> THEN TRUE
  ELSE LET e == Head(todo)
       IN CASE e.t = "lit" -> OccursAt(text, e.s, pos)
            [] e.t = "save" -> CanStart(Tail(todo), text, pos)
            [] e.t = "rep" ->
                 IF e.lo > 0 THEN pos <= Len(text) /\ InClass(e.c, text[pos]) ELSE TRUE
            [] OTHER -> TRUE

(***************************************************************************)
(* The matcher: todo is the sequence of steps still to match from position *)
(* pos of text; the first alternative that lets the rest match wins, as in *)
(* a backtracking engine: a greedy repetition tries its longest count      *)
(* first, a lazy one its shortest.  The group marks that follow a step are *)
(* taken together with it.                                                 *)
(***************************************************************************)
\* How many group marks follow the first step of todo.
Marks(todo) ==
  LET other == {i \in 2..Len(todo) : todo[i].t # "save"}
  IN IF other = {} THEN Len(todo) - 1 ELSE Min(other) - 2

\* The steps after the first step of todo and its group marks.
After(todo) == SubSeq(todo, Marks(todo) + 2, Len(todo))

\* The matcher's position and groups once the first step of todo has taken
\* k characters and the group marks after it are set.
Step(todo, at, k) ==
  LET marks == {todo[i] : i \in 2..(Marks(todo) + 1)}
      pos == at.pos + k
  IN [pos |-> pos,
      caps |-> [n \in DOMAIN at.caps |->
        << IF [t |-> "save", n |-> n, at |-> 1] \in marks THEN pos ELSE at.caps[n][1],
           IF [t |-> "save", n |-> n, at |-> 2] \in marks THEN pos - 1 ELSE at.caps[n][2] >>]]

RECURSIVE Match(_, _, _)
RECURSIVE TryCounts(_, _, _, _)

\* The counts ks of the repetition heading todo, in its order of preference.
TryCounts(ks, todo, at, text) ==
  LET k == IF Head(todo).lazy THEN Min(ks) ELSE Max(ks)
      m == Match(After(todo), Step(todo, at, k), text)
  IN IF m.ok \/ ks = {k} THEN m ELSE TryCounts(ks \ {k}, todo, at, text)

Match(todo, at, text) ==
  CASE todo = <<>> ->
         [ok |-> TRUE, start |-> 0, end |-> at.pos, caps |-> at.caps, text |-> text]
    [] todo # <<>> /\ Head(todo).t = "lit" ->
         IF OccursAt(text, Head(todo).s, at.pos)
         THEN Match(After(todo), Step(todo, at, Len(Head(todo).s)), text)
         ELSE NoMatch
    [] todo # <<>> /\ Head(todo).t = "rep" ->
         LET ks == {k \in Head(todo).lo..RunLen(text, at.pos, Head(todo).c) :
                      CanStart(After(todo), text, at.pos + k)}
         IN IF ks = {} THEN NoMatch ELSE TryCounts(ks, todo, at, text)
    [] todo # <<>> /\ Head(todo).t = "any" ->
         LET more == Match(Head(todo).e \o todo, at, text)
         IN IF more.ok THEN more ELSE Match(After(todo), Step(todo, at, 0), text)

\* pattern.match at position pos: the match object, or NoMatch.
MatchAt(re, text, pos) ==
  LET m == Match(Lit(<<>>) \o re, [pos |-> pos, caps |-> NoGroups], text)
  IN IF m.ok THEN [m EXCEPT !.start = pos] ELSE m

\* m.group(n), and m.group(0)
Group(m, n) == SubSeq(m.text, m.caps[n][1], m.caps[n][2])
Group0(m) == SubSeq(m.text, m.start, m.end - 1)

(***************************************************************************)
(* re.sub(pattern, repl, text): the leftmost non-overlapping matches, each *)
(* replaced by its callback's text.  No pattern here matches the empty     *)
(* text, so the scan resumes at the end of every match.                    *)
(***************************************************************************)
\* fix_format_strings_phase2.py
\* \{([^}]+\.[^}]+)\} with the expression in group n
DottedRegion(n) ==
  Ch("{") \o Grp(n, Plus(Not({"}"})) \o Ch(".") \o Plus(Not({"}"}))) \o Ch("}")

Phase2_pattern ==
  Lit(S_format) \o WsStar \o Ch("(") \o WsStar \o Ch(Q)
    \o Grp(1, LazyStar(Not({Q}))) \o DottedRegion(2) \o Grp(3, LazyStar(Not({Q})))
    \o Ch(Q) \o WsStar \o Ch(")")

Phase2_replacer(m) ==
  S_format \o <<"(", Q>> \o Group(m, 1) \o <<"{", "}">> \o Group(m, 3)
    \o <<Q, ",", " ">> \o Group(m, 2) \o <<")">>

Phase2_pattern2 ==
  Lit(S_format) \o WsStar \o Ch("(") \o WsStar \o Ch(Q)
    \o Grp(1, LazyStar(Not({Q}))) \o DottedRegion(2) \o Grp(3, LazyStar(Not({Q})))
    \o Ch(Q) \o WsStar \o Ch(",") \o WsStar \o Grp(4, Plus(Not({")"}))) \o Ch(")")

\* A replacement that would put the explicit arguments ahead of the
\* extracted expression.
Phase2_replacer2_ArgsFirst(m) ==
  S_format \o <<"(", Q>> \o Group(m, 1) \o <<"{", "}">> \o Group(m, 3)
    \o <<Q, ",", " ">> \o Group(m, 4) \o <<",", " ">> \o Group(m, 2) \o <<")">>

\* lines 37-46
Phase2_replacer2(m) ==
  S_format \o <<"(", Q>> \o Group(m, 1) \o <<"{", "}">> \o Group(m, 3)
    \o <<Q, ",", " ">> \o Group(m, 2) \o <<",", " ">> \o Group(m, 4) \o <<")">>

Phase2_pattern3 ==
  Lit(S_write) \o WsStar \o Ch("(") \o WsStar \o Grp(1, Plus(Not({","}))) \o Ch(",")
    \o WsStar \o Ch(Q)
    \o Grp(2, LazyStar(Not({Q}))) \o DottedRegion(3) \o Grp(4, LazyStar(Not({Q})))
    \o Ch(Q) \o WsStar \o Ch(")")

Phase2_replacer3(m) ==
  S_write \o <<"(">> \o Group(m, 1) \o <<",", " ", Q>> \o Group(m, 2) \o <<"{", "}">>
    \o Group(m, 4) \o <<Q, ",", " ">> \o Group(m, 3) \o <<")">>

\* fix_final_format_strings.py and fix_remaining_format_strings.py: the
\* (pattern, replacement) pairs.  name is the macro, expr the pattern of the
\* expression between the braces, last the number of the suffix group.
SelfField == Lit(S_self) \o Ch(".") \o Grp(2, Word)
VarField == Grp(2, Word) \o Ch(".") \o Grp(3, Word)

TemplatePattern(name, expr, last) ==
  Lit(name) \o WsStar \o Ch("(") \o WsStar \o Ch(Q) \o Grp(1, LazyStar(Not({Q})))
    \o Ch("{") \o expr \o Ch("}")
    \o Grp(last, LazyStar(Not({Q}))) \o Ch(Q) \o WsStar \o Ch(")")

\* lambda m: f'name!("{m.group(1)}{{}}{m.group(last)}", expr)'
TemplateRepl(name, m, last, expr) ==
  name \o <<"(", Q>> \o Group(m, 1) \o <<"{", "}">> \o Group(m, last)
    \o <<Q, ",", " ">> \o expr \o <<")">>

WriterSelfField == Lit(S_self) \o Ch(".") \o Grp(3, Word)
WriterVarField == Grp(3, Word) \o Ch(".") \o Grp(4, Word)

WriterPattern(expr, last) ==
  Lit(S_write) \o WsStar \o Ch("(") \o WsStar \o Grp(1, Word) \o WsStar \o Ch(",")
    \o WsStar \o Ch(Q) \o Grp(2, LazyStar(Not({Q})))
    \o Ch("{") \o expr \o Ch("}")
    \o Grp(last, LazyStar(Not({Q}))) \o Ch(Q) \o WsStar \o Ch(")")

\* lambda m: f'write!({m.group(1)}, "{m.group(2)}{{}}{m.group(last)}", expr)'
WriterRepl(m, last, expr) ==
  S_write \o <<"(">> \o Group(m, 1) \o <<",", " ", Q>> \o Group(m, 2) \o <<"{", "}">>
    \o Group(m, last) \o <<Q, ",", " ">> \o expr \o <<")">>

SelfDot == S_self \o <<".">>
Parens == <<"(", ")">>
CallSuffix == Ch("(") \o Ch(")")

Final_patterns ==
  << [re |-> TemplatePattern(S_format, SelfField, 3), repl |-> "format_self"],
     [re |-> TemplatePattern(S_format, VarField, 4), repl |-> "format_var"],
     [re |-> TemplatePattern(S_format, SelfField \o CallSuffix, 3),
      repl |-> "format_self_call"],
     [re |-> TemplatePattern(S_format, VarField \o CallSuffix, 4),
      repl |-> "format_var_call"],
     [re |-> TemplatePattern(S_println, SelfField, 3), repl |-> "println_self"],
     [re |-> TemplatePattern(S_println, VarField, 4), repl |-> "println_var"],
     [re |-> WriterPattern(WriterSelfField, 4), repl |-> "write_self"],
     [re |-> WriterPattern(WriterVarField, 5), repl |-> "write_var"] >>

Remaining_patterns ==
  << [re |-> TemplatePattern(S_format, SelfField, 3), repl |-> "format_self"],
     [re |-> TemplatePattern(S_format, VarField, 4), repl |-> "format_var"],
     [re |-> TemplatePattern(S_println, SelfField, 3), repl |-> "println_self"],
     [re |-> TemplatePattern(S_println, VarField, 4), repl |-> "println_var"],
     [re |-> WriterPattern(WriterSelfField, 4), repl |-> "write_self"] >>

\* fix_format_strings_advanced.py
\* lines 31-46 and 122-137: the split on commas outside brackets.
\* loop holds current_var, paren_depth and variables; a negative paren_depth
\* is the break of line 36 (130), which leaves the character out.
RECURSIVE SplitVars(_, _, _)
SplitVars(s, i, loop) ==
  LET running == i <= Len(s) /\ loop.paren_depth >= 0
  IN CASE ~running -> loop
       [] running /\ s[i] \in {"(", "<"} ->
            SplitVars(s, i + 1, [loop EXCEPT !.paren_depth = @ + 1,
                                             !.current_var = Append(@, s[i])])
       [] running /\ s[i] \in {")", ">"} ->
            SplitVars(s, i + 1, [loop EXCEPT !.paren_depth = @ - 1,
                                             !.current_var = IF loop.paren_depth = 0
                                                             THEN @ ELSE Append(@, s[i])])
       [] running /\ s[i] = "," /\ loop.paren_depth = 0 ->
            SplitVars(s, i + 1, [loop EXCEPT !.variables = IF Strip(loop.current_var) # <<>>
                                                           THEN Append(@, Strip(loop.current_var))
                                                           ELSE @,
                                             !.current_var = <<>>])
       [] running /\ s[i] \notin {"(", "<", ")", ">"}
                  /\ ~(s[i] = "," /\ loop.paren_depth = 0) ->
            SplitVars(s, i + 1, [loop EXCEPT !.current_var = Append(@, s[i])])

\* lines 27-45 and 119-137: the variables the loop leaves.
SplitByCommas(s) ==
  LET loop == SplitVars(s, 1, [current_var |-> <<>>, paren_depth |-> 0, variables |-> <<>>])
  IN IF Strip(loop.current_var) # <<>> /\ loop.paren_depth >= 0
     THEN Append(loop.variables, Strip(loop.current_var)) ELSE loop.variables

\* lines 22-24 and 114-116
StripLeadingComma(s) ==
  LET t == Strip(s)
  IN IF StartsWith(t, <<",">>) THEN Strip(Tail(t)) ELSE t

extract_vars(vars_str) == SplitByCommas(StripLeadingComma(vars_str))

\* lines 56-63 and 107-109: each variable replaces the first "{}" left;
\* replace_format cleans it first (strip, drop a ")" that closes nothing),
\* fix_placeholders takes it as given.
RECURSIVE FillPlaceholders(_, _, _)
FillPlaceholders(result, variables, clean) ==
  IF variables = <<>> THEN result
  ELSE LET v0 == IF clean THEN Strip(Head(variables)) ELSE Head(variables)
           var == IF clean /\ EndsWith(v0, <<")">>) /\ ~Contains(v0, "(")
                  THEN SubSeq(v0, 1, Len(v0) - 1) ELSE v0
       IN FillPlaceholders(
            ReplaceFirst(result, <<"{", "}">>, <<"{">> \o var \o <<"}">>),
            Tail(variables), clean)

fix_placeholders(format_str, variables) ==
  FillPlaceholders(format_str, variables, FALSE)

\* lines 17-70: the callback of the format!, println! and eprintln! rewrites.
replace_format(m) ==
  LET format_str == Group(m, 1)
      variables == SplitByCommas(StripLeadingComma(Group(m, 2)))
      placeholder_count == Count(format_str, <<"{", "}">>)
      used == SubSeq(variables, 1,
                     IF placeholder_count < Len(variables)
                     THEN placeholder_count ELSE Len(variables))
      result == FillPlaceholders(format_str, used, TRUE)
      remaining_vars == SubSeq(variables, placeholder_count + 1, Len(variables))
  IN IF placeholder_count = 0 \/ Len(variables) = 0 THEN Group0(m)
     ELSE IF remaining_vars # <<>>
     THEN S_format \o <<"(", Q>> \o result \o <<Q, ",", " ">> \o Join(remaining_vars)
            \o <<")">>
     ELSE S_format \o <<"(", Q>> \o result \o <<Q, ")">>

\* ((?:,\s*[^,)]+)+) as group n
ArgsTail(n) == Grp(n, OneOrMore(Ch(",") \o WsStar \o Plus(Not({",", ")"}))))

Advanced_pattern(name) ==
  Lit(name) \o WsStar \o Ch("(") \o WsStar \o Ch(Q) \o Grp(1, LazyStar(Not({Q}))) \o Ch(Q)
    \o WsStar \o ArgsTail(2) \o WsStar \o Ch(")")

Advanced_write_pattern ==
  Lit(S_write) \o WsStar \o Ch("(") \o WsStar \o Grp(1, Plus(Not({","}))) \o WsStar
    \o Ch(",") \o WsStar \o Ch(Q) \o Grp(2, LazyStar(Not({Q}))) \o Ch(Q)
    \o WsStar \o ArgsTail(3) \o WsStar \o Ch(")")

Advanced_write_repl(m) ==
  S_write \o <<"(">> \o Group(m, 1) \o <<",", " ", Q>>
    \o fix_placeholders(Group(m, 2), extract_vars(Group(m, 3))) \o <<Q, ")">>

\* The replacement callbacks, by name.
Repl(kind, m) ==
  CASE kind = "replacer" -> Phase2_replacer(m)
    [] kind = "replacer2" -> Phase2_replacer2(m)
    [] kind = "replacer3" -> Phase2_replacer3(m)
    [] kind = "format_self" -> TemplateRepl(S_format, m, 3, SelfDot \o Group(m, 2))
    [] kind = "format_var" ->
         TemplateRepl(S_format, m, 4, Group(m, 2) \o <<".">> \o Group(m, 3))
    [] kind = "format_self_call" ->
         TemplateRepl(S_format, m, 3, SelfDot \o Group(m, 2) \o Parens)
    [] kind = "format_var_call" ->
         TemplateRepl(S_format, m, 4, Group(m, 2) \o <<".">> \o Group(m, 3) \o Parens)
    [] kind = "println_self" -> TemplateRepl(S_println, m, 3, SelfDot \o Group(m, 2))
    [] kind = "println_var" ->
         TemplateRepl(S_println, m, 4, Group(m, 2) \o <<".">> \o Group(m, 3))
    [] kind = "write_self" -> WriterRepl(m, 4, SelfDot \o Group(m, 3))
    [] kind = "write_var" -> WriterRepl(m, 5, Group(m, 3) \o <<".">> \o Group(m, 4))
    [] kind = "replace_format" -> replace_format(m)
    [] kind = "replace_println" -> ReplaceAll(replace_format(m), S_format, S_println)
    [] kind = "replace_eprintln" -> ReplaceAll(replace_format(m), S_format, S_eprintln)
    [] kind = "write_fix" -> Advanced_write_repl(m)

RECURSIVE SubFrom(_, _, _, _, _)
SubFrom(re, kind, text, pos, out) ==
  LET starts == {p \in pos..Len(text) : CanStart(re, text, p)}
  IN IF starts = {} THEN out \o From(text, pos)
     ELSE LET p == Min(starts)
              m == MatchAt(re, text, p)
          IN IF m.ok
             THEN SubFrom(re, kind, text, m.end,
                          out \o SubSeq(text, pos, p - 1) \o Repl(kind, m))
             ELSE SubFrom(re, kind, text, p + 1, out \o SubSeq(text, pos, p))

Sub(re, kind, text) == IF text = <<>> THEN text ELSE SubFrom(re, kind, text, 1, <<>>)

\* for pattern, replacement in patterns: modified = re.sub(...)
RECURSIVE SubAll(_, _)
SubAll(patterns, text) ==
  IF patterns = <<>> THEN text
  ELSE SubAll(Tail(patterns), Sub(Head(patterns).re, Head(patterns).repl, text))

Phase2_fix(content) ==
  Sub(Phase2_pattern3, "replacer3",
      Sub(Phase2_pattern2, "replacer2",
          Sub(Phase2_pattern, "replacer", content)))

Final_fix(content) == SubAll(Final_patterns, content)

Remaining_fix(content) == SubAll(Remaining_patterns, content)

fix_format_strings(content) ==
  Sub(Advanced_write_pattern, "write_fix",
      Sub(Advanced_pattern(S_eprintln), "replace_eprintln",
          Sub(Advanced_pattern(S_println), "replace_println",
              Sub(Advanced_pattern(S_format), "replace_format", content))))

(***************************************************************************)
(* The files the tools are run over: one formatting call per file, built   *)
(* from a macro name, template pieces joined by a space, and explicit      *)
(* arguments.                                                              *)
(***************************************************************************)
Tools == {"phase2", "final", "remaining", "advanced"}

Macros == {S_format, S_println, S_eprintln, S_write}

P_bare == <<"{", "}">>
P_field == <<"{", "a", ".", "b", "}">>
P_self == <<"{", "s", "e", "l", "f", ".", "f", "}">>
P_call == <<"{", "x", ".", "m", "(", ")", "}">>
P_doubled == <<"{", "{", "a", ".", "b", "}", "}">>

Pieces == {P_bare, P_field, P_self, P_call, P_doubled}

A_var == <<"y">>
A_call == <<"g", "(", "x", ")">>
A_cmp == <<"b", " ", ">", " ", "c">>

ArgPool == {A_var, A_call, A_cmp}

SeqsUpTo(S, lo, hi) == UNION {[1..n -> S] : n \in lo..hi}

RECURSIVE JoinWith(_, _)
JoinWith(xs, sep) ==
  IF xs = <<>> THEN <<>>
  ELSE IF Len(xs) = 1 THEN xs[1]
  ELSE xs[1] \o sep \o JoinWith(Tail(xs), sep)

Writer == <<"f">>

BuildCall(macro, pieces, args) ==
  macro \o <<"(">>
    \o (IF macro = S_write THEN Writer \o <<",", " ">> ELSE <<>>)
    \o <<Q>> \o JoinWith(pieces, <<" ">>) \o <<Q>>
    \o (IF args = <<>> THEN <<>> ELSE <<",", " ">> \o JoinWith(args, <<",", " ">>))
    \o <<")">>

CRLF == <<"\r", "\n">>

\* The calls, and the one-piece calls again as a line of a file with CR LF
\* line ends.
InputsOver(macros, pieces_pool) ==
  {BuildCall(macro, pieces, args) :
     macro \in macros,
     pieces \in SeqsUpTo(pieces_pool, 1, MaxPieces),
     args \in SeqsUpTo(ArgPool, 0, MaxArgs)}
  \cup
  {BuildCall(macro, <<piece>>, args) \o CRLF :
     macro \in macros,
     piece \in pieces_pool,
     args \in SeqsUpTo(ArgPool, 0, 1)}

Inputs == InputsOver(Macros, Pieces)

(***************************************************************************)
(* State: the file on disk, and what a run of a tool's main() leaves.      *)
(***************************************************************************)
VARIABLES
  tool,         \* the script the user runs over the file
  original,     \* the file's text before the first run
  previous,     \* the file's text before the latest run
  disk,         \* the file's text now
  runs,         \* how many times the tool has been run
  fixed_count,  \* the count the latest run reported
  tree,         \* main() over a list of files: each file's text and I/O fault
  files,        \* the text each of these files holds now
  next_file,    \* the position of main()'s loop in the list
  total_count,  \* the files the advanced script's main() has scanned
  errors,       \* the files an "Error processing" line was printed for
  not_found,    \* the files a "File not found" line was printed for
  written,      \* the files written back
  aborted,      \* an exception left process_file and ended main()
  vocab_data,   \* generate-vocabulary-md.py: the graph document loaded
  markdown      \* the lines of the vocabulary.md it wrote, <<>> before it ran

driver_vars == <<tree, files, next_file, total_count, errors, not_found, written, aborted>>

vocab_vars == <<vocab_data, markdown>>

vars == <<tool, original, previous, disk, runs, fixed_count, driver_vars, vocab_vars>>

\* No list of files is being processed.
DriverIdle ==
  /\ tree = <<>>
  /\ files = <<>>
  /\ next_file = 1
  /\ total_count = 0
  /\ errors = <<>>
  /\ not_found = <<>>
  /\ written = <<>>
  /\ aborted = FALSE

\* No vocabulary is being generated.
VocabIdle ==
  /\ vocab_data = [categories |-> <<>>, terms |-> <<>>]
  /\ markdown = <<>>

InitOver(tools, inputs) ==
  /\ tool \in tools
  /\ original \in inputs
  /\ previous = original
  /\ disk = original
  /\ runs = 0
  /\ fixed_count = 0
  /\ DriverIdle
  /\ VocabIdle

Init == InitOver(Tools, Inputs)

\* process_file under main(), content being the text read and fixed its
\* rewrite: write fixed back when it differs from content, count the file
\* when it was written.  The file is written in text mode on a system whose
\* line end is "\n", so fixed reaches the file as it is.
ProcessFile(name, content, fixed) ==
  /\ tool = name
  /\ runs < MaxRuns
  /\ previous' = disk
  /\ disk' = IF fixed # content THEN fixed ELSE disk
  /\ fixed_count' = IF fixed # content THEN 1 ELSE 0
  /\ runs' = runs + 1
  /\ UNCHANGED <<tool, original, driver_vars, vocab_vars>>

RunPhase2 ==
  ProcessFile("phase2", UniversalNewlines(disk), Phase2_fix(UniversalNewlines(disk)))
RunFinal ==
  ProcessFile("final", UniversalNewlines(disk), Final_fix(UniversalNewlines(disk)))
RunRemaining ==
  ProcessFile("remaining", UniversalNewlines(disk),
              Remaining_fix(UniversalNewlines(disk)))
RunAdvanced ==
  ProcessFile("advanced", UniversalNewlines(disk),
              fix_format_strings(UniversalNewlines(disk)))

Next == RunPhase2 \/ RunFinal \/ RunRemaining \/ RunAdvanced

Spec == Init /\ [][Next]_vars

\* Every tool over the calls whose templates hold bare placeholders only.
InitBare == InitOver(Tools, InputsOver(Macros, {P_bare}))
SpecBare == InitBare /\ [][Next]_vars

\* The phase-2 script over format! calls.
InitPhase2 == InitOver({"phase2"}, InputsOver({S_format}, Pieces))
SpecPhase2 == InitPhase2 /\ [][RunPhase2]_vars

(***************************************************************************)
(* main() over a list of files.  Each file has a text and an I/O fault:    *)
(* "missing" (no such file), "stat" (the file's directory cannot be        *)
(* searched: stat and open raise PermissionError), "read" (open or read    *)
(* raises), "open_w" (open for writing raises, the file keeps its text),   *)
(* "write" (the write or the close raises after the file was truncated:    *)
(* the file holds a prefix of the new text) or "none".                     *)
(***************************************************************************)
MaxFiles == 2

\* The longest proper prefix a failed write is followed to.
MaxWritten == 1

Faults == {"none", "missing", "stat", "read", "open_w", "write"}

\* A text the field-access scripts rewrite and the advanced script leaves,
\* with a CR LF line end, and one the advanced script rewrites and the
\* others leave.
FileTexts ==
  { BuildCall(S_format, <<P_self>>, <<>>) \o CRLF,
    BuildCall(S_format, <<P_bare>>, <<A_var>>) }

FileLists == SeqsUpTo([text : FileTexts, fault : Faults], 1, MaxFiles)

\* The whole-text rewrite of the script name.
Normalize(name, content) ==
  CASE name = "phase2" -> Phase2_fix(content)
    [] name = "final" -> Final_fix(content)
    [] name = "remaining" -> Remaining_fix(content)
    [] name = "advanced" -> fix_format_strings(content)

\* What a write of fixed that failed may leave in the truncated file: nothing,
\* a part of fixed, or all of it when it is the close that failed.
AfterFailedWrite(fixed) ==
  {SubSeq(fixed, 1, n) : n \in 0..Min({MaxWritten, Len(fixed)})} \cup {fixed}

\* The try block of process_file over a file holding raw, content being the
\* text read from it and fixed the rewritten content: what it returns, the
\* texts it may leave in the file, whether it wrote the file back, whether it
\* raised.
TryProcess(raw, content, fixed, fault) ==
  CASE fault \in {"missing", "stat", "read"} ->
         [returned |-> FALSE, texts |-> {raw}, wrote |-> FALSE, raised |-> TRUE,
          error |-> FALSE]
    [] fault \notin {"missing", "stat", "read"} /\ fixed = content ->
         [returned |-> FALSE, texts |-> {raw}, wrote |-> FALSE, raised |-> FALSE,
          error |-> FALSE]
    [] fault = "open_w" /\ fixed # content ->
         [returned |-> FALSE, texts |-> {raw}, wrote |-> FALSE, raised |-> TRUE,
          error |-> FALSE]
    [] fault = "write" /\ fixed # content ->
         [returned |-> FALSE, texts |-> AfterFailedWrite(fixed), wrote |-> FALSE,
          raised |-> TRUE, error |-> FALSE]
    [] fault = "none" /\ fixed # content ->
         [returned |-> TRUE, texts |-> {fixed}, wrote |-> TRUE, raised |-> FALSE,
          error |-> FALSE]

\* except Exception as e: print the error, return False.
ExceptException(r) ==
  IF r.raised THEN [r EXCEPT !.raised = FALSE, !.error = TRUE] ELSE r

process_file(name, raw, fault) ==
  ExceptException(
    TryProcess(raw, UniversalNewlines(raw), Normalize(name, UniversalNewlines(raw)),
               fault))

InitDriver ==
  /\ tool \in Tools
  /\ original = <<>>
  /\ previous = <<>>
  /\ disk = <<>>
  /\ runs = 0
  /\ fixed_count = 0
  /\ tree \in FileLists
  /\ files = [i \in DOMAIN tree |-> tree[i].text]
  /\ next_file = 1
  /\ total_count = 0
  /\ errors = <<>>
  /\ not_found = <<>>
  /\ written = <<>>
  /\ aborted = FALSE
  /\ VocabIdle

\* What main() keeps of process_file's outcome r for the file at position i.
Processed(i, r) ==
  /\ \E text \in r.texts : files' = [files EXCEPT ![i] = text]
  /\ errors' = IF r.error THEN Append(errors, i) ELSE errors
  /\ written' = IF r.wrote THEN Append(written, i) ELSE written
  /\ aborted' = r.raised
  /\ fixed_count' = IF r.returned THEN fixed_count + 1 ELSE fixed_count
  /\ next_file' = IF r.raised THEN i ELSE i + 1

\* One turn of main()'s loop over the files.  exists_checked: the script
\* tests Path(file_path).exists() first; counts_total: it keeps total_count.
\* Path.exists() answers False for a file that is not there and lets the
\* PermissionError of a failed stat through: main() has no try around it,
\* so the exception ends the run.
MainLoop(name, exists_checked, counts_total) ==
  /\ tool = name
  /\ ~aborted
  /\ next_file <= Len(tree)
  /\ total_count' = IF counts_total THEN total_count + 1 ELSE total_count
  /\ IF exists_checked /\ tree[next_file].fault = "missing"
     THEN /\ not_found' = Append(not_found, next_file)
          /\ next_file' = next_file + 1
          /\ UNCHANGED <<files, errors, written, aborted, fixed_count>>
     ELSE IF exists_checked /\ tree[next_file].fault = "stat"
     THEN /\ aborted' = TRUE
          /\ UNCHANGED <<files, errors, written, fixed_count, next_file, not_found>>
     ELSE /\ Processed(next_file,
                       process_file(name, files[next_file], tree[next_file].fault))
          /\ UNCHANGED not_found
  /\ UNCHANGED <<tool, original, previous, disk, runs, tree, vocab_vars>>

MainPhase2 == MainLoop("phase2", FALSE, FALSE)
MainFinal == MainLoop("final", TRUE, FALSE)
MainRemaining == MainLoop("remaining", TRUE, FALSE)
MainAdvanced == MainLoop("advanced", FALSE, TRUE)

NextDriver == MainPhase2 \/ MainFinal \/ MainRemaining \/ MainAdvanced

SpecDriver == InitDriver /\ [][NextDriver]_vars

(***************************************************************************)
(* generate-vocabulary-md.py.  The markdown is kept as the list `lines`    *)
(* the script joins with newlines; the block generate_term_section makes   *)
(* for a term is one entry of it, holding the heading level and the        *)
(* formatted term name.                                                    *)
(***************************************************************************)
MaxCats == 2
MaxSubcats == 2
MaxTerms == 2

CatIds == {"c1", "c2"}
SubcatIds == {"s1", "s2"}

\* category['name'] and subcat['name']
NameOfId(id) ==
  CASE id = "c1" -> "Core Concepts"
    [] id = "c2" -> "Domain Model"
    [] id = "s1" -> "Events"
    [] id = "s2" -> "Commands"

\* category.get('description') and subcat.get('description'): some have one.
DescriptionOfId(id) ==
  CASE id \in {"c1", "s1"} -> "described"
    [] id \notin {"c1", "s1"} -> ""

Subcategory(id) == [id |-> id, name |-> NameOfId(id), description |-> DescriptionOfId(id)]

Category(id, subcategories) ==
  [id |-> id, name |-> NameOfId(id), description |-> DescriptionOfId(id),
   subcategories |-> subcategories]

Digits == <<"1", "2", "3", "4", "5", "6", "7", "8", "9">>

\* The name of the k-th term of a document; every second one carries a
\* parenthetical suffix.
TermName(k) ==
  <<"T", Digits[k]>> \o (IF k % 2 = 0 THEN <<" ", "(", "x", ")">> ELSE <<>>)

\* A term; subcategory "" stands for a term with no (or an empty) tag.
Term(k, category, subcategory) ==
  [name |-> TermName(k), category |-> category, subcategory |-> subcategory]

CategoryLists ==
  SeqsUpTo({Category(id, subs) :
              id \in CatIds,
              subs \in SeqsUpTo({Subcategory(sid) : sid \in SubcatIds}, 0, MaxSubcats)},
           1, MaxCats)

TermLists ==
  UNION {{[k \in 1..n |-> Term(k, tags[k][1], tags[k][2])] :
            tags \in [1..n -> CatIds \X ({""} \cup SubcatIds)]} : n \in 1..MaxTerms}

Documents == [categories : CategoryLists, terms : TermLists]

\* lines 21-27
format_term_name(term) ==
  LET name == term.name
      at == {i \in 1..(Len(name) - 1) : name[i] = " " /\ name[i + 1] = "("}
  IN IF at # {} /\ EndsWith(name, <<")">>) THEN SubSeq(name, 1, Max(at) - 1) ELSE name

Line(kind, text) == [kind |-> kind, text |-> text, level |-> "", name |-> <<>>]

Blank == Line("blank", "")

\* lines 44-63: the block of a term.
generate_term_section(term, level) ==
  [kind |-> "term", text |-> "", level |-> level, name |-> format_term_name(term)]

\* lines 104-108 and 120-124
DescriptionLines(entry) ==
  IF entry.description # "" THEN <<Line("description", entry.description), Blank>>
  ELSE <<>>

\* lines 76-91: terms_by_category[cat_id]['subcategories'][subcat_id], and
\* terms_by_category[cat_id]['direct'] when subcat_id is "".
TermsOf(terms, cat_id, subcat_id) ==
  SelectSeq(terms, LAMBDA term : term.category = cat_id /\ term.subcategory = subcat_id)

RECURSIVE Flatten(_)
Flatten(parts) == IF parts = <<>> THEN <<>> ELSE Head(parts) \o Flatten(Tail(parts))

\* lines 127-131 and 135-139
TermBlocks(group, level) ==
  Flatten([i \in 1..Len(group) |-> <<generate_term_section(group[i], level), Blank>>])

\* lines 112-131
SubcategorySection(terms, cat_id, subcat) ==
  IF TermsOf(terms, cat_id, subcat.id) = <<>> \/ subcat.id = "" THEN <<>>
  ELSE <<Line("h3", subcat.name), Blank>> \o DescriptionLines(subcat)
         \o TermBlocks(TermsOf(terms, cat_id, subcat.id), "####")

\* lines 94-139
CategorySection(terms, category) ==
  IF \A i \in 1..Len(terms) : terms[i].category # category.id THEN <<>>
  ELSE <<Line("h2", category.name), Blank>> \o DescriptionLines(category)
         \o Flatten([i \in 1..Len(category.subcategories) |->
                       SubcategorySection(terms, category.id, category.subcategories[i])])
         \o TermBlocks(TermsOf(terms, category.id, ""), "###")

\* lines 66-148
generate_markdown(data) ==
  <<Line("h1", "CIM Vocabulary"), Blank, Line("link", "Back to Index"), Blank>>
    \o Flatten([i \in 1..Len(data.categories) |->
                  CategorySection(data.terms, data.categories[i])])
    \o <<Line("rule", "---"), Blank, Line("note", "This vocabulary is continuously updated")>>

InitVocab ==
  /\ tool = "vocabulary"
  /\ original = <<>>
  /\ previous = <<>>
  /\ disk = <<>>
  /\ runs = 0
  /\ fixed_count = 0
  /\ DriverIdle
  /\ vocab_data \in Documents
  /\ markdown = <<>>

\* main(): load the graph, generate the markdown, write it.
GenerateVocabulary ==
  /\ tool = "vocabulary"
  /\ markdown = <<>>
  /\ markdown' = generate_markdown(vocab_data)
  /\ UNCHANGED <<tool, original, previous, disk, runs, fixed_count, driver_vars, vocab_data>>

SpecVocab == InitVocab /\ [][GenerateVocabulary]_vars

(***************************************************************************)
(* The vocabulary of the properties: how a formatting call is read and     *)
(* rendered (spec sections 4.1 to 4.5).  None of this is the scripts'      *)
(* code; it is the yardstick their output is measured with.                *)
(***************************************************************************)
\* The position of the k-th double quote of text at or after i, 0 if none.
RECURSIVE QuotePos(_, _, _)
QuotePos(text, k, i) ==
  IF i > Len(text) THEN 0
  ELSE IF text[i] = Q THEN (IF k = 1 THEN i ELSE QuotePos(text, k - 1, i + 1))
  ELSE QuotePos(text, k, i + 1)

RECURSIVE LastPos(_, _, _)
LastPos(text, c, i) ==
  IF i < 1 THEN 0 ELSE IF text[i] = c THEN i ELSE LastPos(text, c, i - 1)

\* The template: the text between the call's first pair of quotes.
Template(text) ==
  SubSeq(text, QuotePos(text, 1, 1) + 1, QuotePos(text, 2, 1) - 1)

\* The explicit-arguments span: after the template's closing quote, up to
\* the call's closing parenthesis.
ArgsText(text) ==
  SubSeq(text, QuotePos(text, 2, 1) + 1, LastPos(text, ")", Len(text)) - 1)

\* Section 4.1: the delimiter tracker, clamped at 0.
Advance(c, depth) ==
  IF c \in {"(", "<"} THEN depth + 1
  ELSE IF c \in {")", ">"} THEN (IF depth > 0 THEN depth - 1 ELSE 0)
  ELSE depth

\* Section 4.4: the split of the span on commas at depth 0.
RECURSIVE SplitTop(_, _, _, _, _)
SplitTop(s, i, cur, depth, acc) ==
  LET put(a, c) == IF Strip(c) # <<>> THEN Append(a, Strip(c)) ELSE a
  IN IF i > Len(s) THEN put(acc, cur)
     ELSE IF s[i] = "," /\ depth = 0 THEN SplitTop(s, i + 1, <<>>, depth, put(acc, cur))
     ELSE SplitTop(s, i + 1, Append(cur, s[i]), Advance(s[i], depth), acc)

ArgList(text) == SplitTop(ArgsText(text), 1, <<>>, 0, <<>>)

\* Section 4.3: the close of the region opened before position i: the first
\* "}" met at tracker depth 0, or 0 when there is none.
RECURSIVE CloseOf(_, _, _)
CloseOf(t, i, depth) ==
  IF i > Len(t) THEN 0
  ELSE IF t[i] = "}" /\ depth = 0 THEN i
  ELSE CloseOf(t, i + 1, Advance(t[i], depth))

LitSeg(c) == [emb |-> FALSE, s |-> <<c>>]
EmbSeg(e) == [emb |-> TRUE, s |-> e]

\* Section 4.3: the template's segments, one literal per character; a
\* doubled marker is one literal character.
RECURSIVE Segments(_, _)
Segments(t, i) ==
  IF i > Len(t) THEN <<>>
  ELSE IF OccursAt(t, <<"{", "{">>, i) THEN <<LitSeg("{")>> \o Segments(t, i + 2)
  ELSE IF OccursAt(t, <<"}", "}">>, i) THEN <<LitSeg("}")>> \o Segments(t, i + 2)
  ELSE IF t[i] = "{" /\ CloseOf(t, i + 1, 0) # 0
    THEN LET j == CloseOf(t, i + 1, 0)
         IN <<EmbSeg(Strip(SubSeq(t, i + 1, j - 1)))>> \o Segments(t, j + 1)
  ELSE <<LitSeg(t[i])>> \o Segments(t, i + 1)

SegmentsOf(text) == Segments(Template(text), 1)

\* The non-empty embedded expressions of a call's template, left to right.
Embedded(text) ==
  LET segs == SegmentsOf(text)
      F[i \in 0..Len(segs)] ==
        IF i = 0 THEN <<>>
        ELSE IF segs[i].emb /\ segs[i].s # <<>> THEN Append(F[i - 1], segs[i].s)
        ELSE F[i - 1]
  IN F[Len(segs)]

\* The literal characters of a call's template, left to right.
LiteralText(text) ==
  LET segs == SegmentsOf(text)
      F[i \in 0..Len(segs)] ==
        IF i = 0 THEN <<>>
        ELSE IF segs[i].emb THEN F[i - 1] ELSE F[i - 1] \o segs[i].s
  IN F[Len(segs)]

Missing == <<"?">>

\* What the call renders: literal characters and expression values in
\* order, each bare placeholder taking the next explicit argument.
RECURSIVE Render(_, _)
Render(segs, args) ==
  IF segs = <<>> THEN <<>>
  ELSE LET g == Head(segs)
       IN IF ~g.emb THEN <<g>> \o Render(Tail(segs), args)
          ELSE IF g.s # <<>> THEN <<g>> \o Render(Tail(segs), args)
          ELSE IF args = <<>> THEN <<EmbSeg(Missing)>> \o Render(Tail(segs), args)
          ELSE <<EmbSeg(Head(args))>> \o Render(Tail(segs), Tail(args))

Rendered(text) == Render(SegmentsOf(text), ArgList(text))

\* The expressions a call renders.
RenderedValues(text) ==
  LET r == Rendered(text)
  IN {r[i].s : i \in {k \in 1..Len(r) : r[k].emb}} \ {Missing}

Range(f) == {f[i] : i \in 1..Len(f)}

IsSuffix(a, b) == Len(a) <= Len(b) /\ SubSeq(b, Len(b) - Len(a) + 1, Len(b)) = a

\* The arguments of now that are not the suffix old: the extracted ones.
NewArgs(old, now) == SubSeq(now, 1, Len(now) - Len(old))

RECURSIVE IsSubsequence(_, _)
IsSubsequence(a, b) ==
  IF a = <<>> THEN TRUE
  ELSE IF b = <<>> THEN FALSE
  ELSE IF Head(a) = Head(b) THEN IsSubsequence(Tail(a), Tail(b))
  ELSE IsSubsequence(a, Tail(b))

IsSubstring(p, s) == Find(s, p, 1) # 0

\* Parentheses balance outside string literals and every literal is closed.
Balanced(text) ==
  LET quotes == {i \in 1..Len(text) : text[i] = Q}
      outside(i) == Cardinality({j \in quotes : j < i}) % 2 = 0
      opens == {i \in 1..Len(text) : text[i] = "(" /\ outside(i)}
      closes == {i \in 1..Len(text) : text[i] = ")" /\ outside(i)}
  IN /\ Cardinality(quotes) % 2 = 0
     /\ Cardinality(opens) = Cardinality(closes)
     /\ \A i \in closes :
          Cardinality({j \in opens : j < i}) >= Cardinality({j \in closes : j <= i})

\* A comma with nothing but white space before the closing parenthesis.
TrailingComma(text) ==
  \E i \in 1..Len(text) :
    /\ text[i] = ","
    /\ \E j \in (i + 1)..Len(text) :
         /\ text[j] = ")"
         /\ \A k \in (i + 1)..(j - 1) : text[k] \in Whitespace

WellFormed(text) ==
  /\ Balanced(text)
  /\ Count(text, <<Q>>) = 2
  /\ ~TrailingComma(ArgsText(text) \o <<")">>)

OnlyBare(text) ==
  LET segs == SegmentsOf(text)
  IN /\ \E i \in 1..Len(segs) : segs[i].emb
     /\ \A i \in 1..Len(segs) : segs[i].emb => segs[i].s = <<>>
     /\ ~IsSubstring(<<"{", "{">>, Template(text))

BareCount(text) ==
  LET segs == SegmentsOf(text)
  IN Cardinality({i \in 1..Len(segs) : segs[i].emb /\ segs[i].s = <<>>})

IsWriteCall(text) == StartsWith(text, S_write)

(***************************************************************************)
(* The claims                                                              *)
(***************************************************************************)
FieldAccessTools == {"phase2", "final", "remaining"}

\* C1: a second run of the tool over the file leaves it as the first run
\* left it and reports zero changed files.
C1_Idempotent ==
  (tool \in {"phase2", "final"} /\ runs >= 2) => (disk = previous /\ fixed_count = 0)

\* C2: the rewritten call renders the same literal text and expression
\* values, in the same order, as the original call; stated for the calls
\* with one embedded expression, every bare placeholder matched by an
\* explicit argument and no doubled marker, which the phase-2 script
\* rewrites once.
C2_SemanticPreservation ==
  (tool = "phase2" /\ runs = 1 /\ disk # original
     /\ Len(Embedded(original)) = 1
     /\ BareCount(original) = Len(ArgList(original))
     /\ ~IsSubstring(<<"{", "{">>, Template(original)))
    => Rendered(disk) = Rendered(original)

\* C3: after one run over a call the tool rewrote, no embedded region with
\* non-empty expression text remains in its template.
C3_CompleteExtraction ==
  (tool \in {"final", "remaining"} /\ runs = 1 /\ disk # original)
    => Embedded(disk) = <<>>

\* C4: in the argument list of a rewritten call the original explicit
\* arguments are the unmodified tail, in their order, and every argument
\* ahead of them was taken out of the template.
C4_OrderInvariant ==
  (tool \in FieldAccessTools /\ disk # original) =>
    /\ IsSuffix(ArgList(original), ArgList(disk))
    /\ Len(ArgList(disk)) > Len(ArgList(original))
    /\ \A e \in Range(NewArgs(ArgList(original), ArgList(disk))) :
         IsSubstring(<<"{">> \o e \o <<"}">>, Template(original))

C4_Witness ==
  /\ tool = "phase2"
  /\ runs = 1
  /\ Len(ArgList(original)) = 2
  /\ Len(ArgList(disk)) = 3

\* C5: the expressions taken out of a template with several embedded
\* expressions stand in the argument list in their template order.
C5_TemplateOrder ==
  (tool = "phase2" /\ runs = 1 /\ Len(Embedded(original)) >= 2
     /\ IsSuffix(ArgList(original), ArgList(disk)))
    => IsSubsequence(NewArgs(ArgList(original), ArgList(disk)), Embedded(original))

\* C6: a call whose template holds only bare placeholders matched by
\* explicit arguments is a fixed point of the rewrite: the tool leaves the
\* call text as it was.
C6_FixedPoint ==
  (OnlyBare(original) /\ BareCount(original) = Len(ArgList(original)))
    => disk = original

\* C7: a rewritten write! call starts with the writer, unchanged, ahead of
\* the template, the writer is no template argument, and every expression
\* the call rendered is still rendered.
C7_WriterFirst ==
  (IsWriteCall(original) /\ runs = 1 /\ disk # original) =>
    /\ StartsWith(disk, S_write \o <<"(">> \o Writer \o <<",", " ", Q>>)
    /\ Writer \notin Range(ArgList(disk))
    /\ RenderedValues(original) \subseteq RenderedValues(disk)

\* C8: a doubled open marker is literal text: the literal text of the
\* template is kept and every argument added to the call is an embedded
\* expression of the original template.
C8_DoubledMarker ==
  (tool \in {"phase2", "final"} /\ runs = 1
     /\ IsSubstring(<<"{", "{">>, Template(original))) =>
    /\ LiteralText(disk) = LiteralText(original)
    /\ IsSuffix(ArgList(original), ArgList(disk))
    /\ Range(NewArgs(ArgList(original), ArgList(disk))) \subseteq Range(Embedded(original))

\* C9: the rewrite of a well-formed call is well-formed: parentheses
\* balanced, template quoted, no trailing comma.
C9_WellFormed ==
  (tool \in {"phase2", "advanced"} /\ WellFormed(original)) => WellFormed(disk)

\* The scan of the arguments span meets a close with no matching open.
RECURSIVE UnmatchedClose(_, _, _)
UnmatchedClose(s, i, depth) ==
  IF i > Len(s) THEN FALSE
  ELSE IF s[i] \in {"(", "<"} THEN UnmatchedClose(s, i + 1, depth + 1)
  ELSE IF s[i] \in {")", ">"}
    THEN depth = 0 \/ UnmatchedClose(s, i + 1, depth - 1)
  ELSE UnmatchedClose(s, i + 1, depth)

\* C10: a call whose arguments hold an unmatched closing delimiter is left
\* verbatim by the advanced fixer.
C10_FailOpen ==
  (tool = "advanced" /\ UnmatchedClose(ArgsText(original), 1, 0)) => disk = original

\* The files main() has been through.
Visited == 1..(next_file - 1)

\* The text read from the file differs after the rewrite.
Differs(i) ==
  Normalize(tool, UniversalNewlines(tree[i].text)) # UniversalNewlines(tree[i].text)

\* C11: a file is written back only if its rewritten text differs from the
\* text read; an I/O failure on a file is caught and reported for that file
\* and does not end the run; the changed-count is the number of files read,
\* differing after the rewrite and written without error.
C11_DriverIsolation ==
  LET differ == {i \in Visited : Differs(i)}
      failed == {i \in Visited : \/ tree[i].fault \in {"missing", "stat", "read"}
                                 \/ tree[i].fault \in {"open_w", "write"} /\ i \in differ}
  IN /\ Range(written) = differ \ failed
     /\ \A i \in Range(written) :
          files[i] = Normalize(tool, UniversalNewlines(tree[i].text))
     /\ \A i \in Visited \ Range(written) : files[i] # tree[i].text => i \in failed
     /\ ~aborted
     /\ Range(errors) \cup Range(not_found) = failed
     /\ fixed_count = Cardinality(differ \ failed)

\* The positions of the markdown that hold a line of the kind.
LinesOf(kind) == {k \in 1..Len(markdown) : markdown[k].kind = kind}

\* The text of the last heading of the kind above position k and below
\* position floor, "" when there is none.
HeadingAbove(kind, k, floor) ==
  LET hs == {i \in LinesOf(kind) : floor < i /\ i < k}
  IN IF hs = {} THEN "" ELSE markdown[Max(hs)].text

\* The position of the category heading above position k, 0 when none.
SectionStart(k) == Max({0} \cup {i \in LinesOf("h2") : i < k})

\* The positions where the j-th term of the document is rendered.
RenderedAt(j) ==
  {k \in LinesOf("term") : markdown[k].name = format_term_name(vocab_data.terms[j])}

\* The category headings of the markdown, top to bottom.
SectionHeadings ==
  LET F[k \in 0..Len(markdown)] ==
        IF k = 0 THEN <<>>
        ELSE IF markdown[k].kind = "h2" THEN Append(F[k - 1], markdown[k].text)
        ELSE F[k - 1]
  IN F[Len(markdown)]

\* The names of the declared categories that terms name, in declaration order.
DeclaredWithTerms ==
  LET named == SelectSeq(vocab_data.categories,
                         LAMBDA c : \E j \in 1..Len(vocab_data.terms) :
                                      vocab_data.terms[j].category = c.id)
  IN [i \in 1..Len(named) |-> named[i].name]

\* C12: the category sections stand in the order the categories are
\* declared, every term of the document is rendered exactly once, under the
\* heading of its category and, when tagged, of its subcategory, and the
\* terms of one group stand in their input order.
C12_VocabularyGrouping ==
  markdown # <<>> =>
    LET terms == vocab_data.terms
    IN /\ SectionHeadings = DeclaredWithTerms
       /\ \A j \in 1..Len(terms) :
            /\ Cardinality(RenderedAt(j)) = 1
            /\ \A k \in RenderedAt(j) :
                 /\ HeadingAbove("h2", k, 0) = NameOfId(terms[j].category)
                 /\ terms[j].subcategory # "" =>
                      HeadingAbove("h3", k, SectionStart(k)) = NameOfId(terms[j].subcategory)
       /\ \A i, j \in 1..Len(terms) :
            (i < j /\ terms[i].category = terms[j].category
                   /\ terms[i].subcategory = terms[j].subcategory) =>
              \A ki \in RenderedAt(i), kj \in RenderedAt(j) : ki < kj

====
